---- MODULE Spec2Model ----
(***************************************************************************)
(* A model of content_aware_scale.py: process_video, the driver loop that  *)
(* reads frames, batches them, maps process_frame over each batch with     *)
(* multiprocessing.Pool.starmap, writes the results and logs progress.     *)
(*                                                                         *)
(* A frame is identified by its index in the source (0, 1, 2, ...).  The   *)
(* result of transforming frame f is the record [res |-> r, src |-> f]:    *)
(* r = "ok" for a carved frame, r = "none" for the None that process_frame *)
(* returns when seam_carve returns None.                                   *)
(*                                                                         *)
(* The run ends in pc = "Done" (process_video ran to its last line) or in  *)
(* pc = "Failed" (an early return after a diagnostic, or an exception that *)
(* process_video does not catch); error says which.                        *)
(***************************************************************************)
EXTENDS Integers, Sequences, FiniteSets

\* ------------------------------------------------------------------ bounds
\* The source delivers at most MaxFrames frames.
MaxFrames == 100
\* cpu_count(): the number of worker processes of the pool.
NumWorkers == 2
\* The longest stream of the specification that varies the frame's shape and
\* the scales: one full batch and a frame.
DimMaxFrames == 33

\* ------------------------------------------------------- program constants
batch_size == 32

\* The values CAP_PROP_FRAME_COUNT may report: the container's metadata, which
\* need not be the number of frames that can actually be read.
TotalFrameChoices == {0, 3, MaxFrames - 1, MaxFrames}
\* Those of them the specification with fairness starts from: the count is
\* used for the percentages only, and only a count of 0 changes how a run ends.
FairTotals == {0, MaxFrames}

\* The numbers of frames the source may hold: cap.read() returns ret false at
\* one of these positions.
StreamLengths == {1, 3, 32, 33, 64, MaxFrames - 1, MaxFrames}

\* The shapes <<height, width>> the first frame may have (image.shape), and
\* the pairs <<scale_x, scale_y>> the caller may pass, in tenths.
DefaultShapes == {<<480, 640>>}
DefaultScales == {<<5, 10>>}
FrameShapes == {<<480, 640>>, <<480, 854>>, <<3, 3>>}
ScalePairs == {<<5, 10>>, <<9, 5>>, <<10, 10>>}

\* The values time.time() - start_time may have at the end, in milliseconds:
\* a clock too coarse to see the run gives 0.
TimeChoices == {0, 2500}

VARIABLES
    input_exists,           \* os.path.exists(input_path)
    cap_opens,              \* whether cv2.VideoCapture can open the file
    total_frames,           \* int(cap.get(CAP_PROP_FRAME_COUNT))
    frame_shape,            \* image.shape of the source's frames: <<h, w>>
    scale_x,                \* the scale_x argument, in tenths
    scale_y,                \* the scale_y argument, in tenths
    pc,                     \* the driver's position in process_video
    error,                  \* why the run failed ("none" while it has not)
    cap_state,              \* the FrameSource handle: none / open / released
    cap_pos,                \* CAP_PROP_POS_FRAMES: index of the next frame
    first_ret,              \* ret of the first cap.read(): "unset"/"true"/"false"
    carved_frame,           \* result of the probe: "unset"/"ok"/"none"/"raise"
    carved_shape,           \* carved_frame.shape: <<h, w>>, <<0, 0>> unset
    out_state,              \* the FrameSink handle: none / open / released
    out_size,               \* (new_width, new_height) given to VideoWriter
    out_opens,              \* history: how many times the sink was opened
    written,                \* frames written to the sink, by source index
    pool_state,             \* the pool: none / running / joined
    frame_buffer,           \* frames read and not yet dispatched
    tasks,                  \* the batch handed to the current starmap call
    slots,                  \* MapResult._value: the result slots of the call
    next_chunk,             \* chunks of the call already taken by workers
    inflight,               \* chunks a worker is processing
    job_failed,             \* MapResult._success is False: a chunk raised
    processed_frames,       \* what the last starmap call returned
    total_processed_frames, \* the written-frame counter
    progress_file,          \* the lines of the progress file
    reported,               \* history: every percentage passed to write()
    batch_sizes,            \* history: the size of every batch dispatched
    dispatched,             \* history: every frame handed to the pool
    none_frames,            \* history: frames whose transform returned None
    failures,               \* history: transformations that failed so far
    total_time,             \* time.time() - start_time at the end, -1 unset
    average_fps,            \* frames per millisecond, a fraction <<num, den>>
    average_spf,            \* milliseconds per frame, a fraction <<num, den>>
    read_error,             \* history: a cap.read() failed with frames left
    transform_calls         \* history: how many times seam_carve was called

vars == <<input_exists, cap_opens, total_frames, frame_shape, scale_x, scale_y,
          pc, error, cap_state, cap_pos, first_ret, carved_frame,
          carved_shape, out_state, out_size, out_opens, written, pool_state,
          frame_buffer, tasks, slots, next_chunk, inflight, job_failed,
          processed_frames, total_processed_frames, progress_file, reported,
          total_time, average_fps, average_spf, batch_sizes, dispatched,
          none_frames, failures, read_error, transform_calls>>

envVars == <<input_exists, cap_opens, total_frames, frame_shape, scale_x,
            scale_y>>
sinkVars == <<out_state, out_size, out_opens>>
statVars == <<total_time, average_fps, average_spf>>
jobVars == <<tasks, slots, next_chunk, inflight, job_failed>>
histVars == <<batch_sizes, dispatched, none_frames, failures>>

\* ----------------------------------------------------------------- helpers
Min(a, b) == IF a < b THEN a ELSE b

Pending == [res |-> "pending", src |-> -1]
Carved(f) == [res |-> "ok", src |-> f]
NoneResult(f) == [res |-> "none", src |-> f]

\* 100 * the percentage, as f"{x:.2f}" prints it: the quotient rounded to two
\* decimals, a tie going to the even digit.
Round2(num, den) ==
    LET q == (num * 10000) \div den
        r == (num * 10000) % den
    IN  IF 2 * r > den \/ (2 * r = den /\ q % 2 = 1) THEN q + 1 ELSE q

\* A variant of progress_percentage that takes the index of the frame just
\* read for the number of frames read.
progress_percentage_index(current_frame, total) ==
    Round2(current_frame - 1, total)

\* progress_percentage = (current_frame / total_frames) * 100, formatted
progress_percentage(current_frame, total) == Round2(current_frame, total)

\* A variant of ProgressWrite that replaces the file's content.
ProgressWrite_overwrite(file, line) == <<line>>

\* progress_file.write(...): the file was opened once, in mode 'w', before the
\* loop, so each write goes after the previous one.
ProgressWrite(file, line) == Append(file, line)

\* A variant of ReportDue that reports at batch boundaries only, as if the
\* report were part of the "buffer is full" branch.
ReportDue_batch(buffer_after) == buffer_after = <<>>

\* The report is a statement of the loop body itself: it runs in every
\* iteration that read a frame, whatever the buffer holds afterwards.
ReportDue(buffer_after) == TRUE

\* A variant of BatchFull that dispatches one frame late.
BatchFull_late(buffer) == Len(buffer) > batch_size

\* len(frame_buffer) >= batch_size
\* A variant that lets the buffer grow to two batches before it is dispatched.
BatchFull_double(buffer) == Len(buffer) >= 2 * batch_size

BatchFull(buffer) == Len(buffer) >= batch_size

\* ------------------------------------------------------------ Pool.starmap
\* chunksize, extra = divmod(len(iterable), len(pool) * 4); if extra: += 1
ChunkSize(n) ==
    (n \div (NumWorkers * 4)) + (IF n % (NumWorkers * 4) # 0 THEN 1 ELSE 0)

NumChunks(n) ==
    IF n = 0 THEN 0 ELSE (n + ChunkSize(n) - 1) \div ChunkSize(n)

\* The task positions (1-based) of chunk c (0-based) of a call of n tasks.
ChunkIdx(c, n) ==
    ((c * ChunkSize(n)) + 1)..Min((c + 1) * ChunkSize(n), n)

\* A variant of SlotStart that stores the chunks in the order they complete.
SlotStart_arrival(c, completed, n) == completed * ChunkSize(n)

\* Where chunk c's results go: self._value[c*chunksize:(c+1)*chunksize], the
\* slot before the chunk's first one.  completed is the number of chunks that
\* finished before this one.
SlotStart(c, completed, n) == c * ChunkSize(n)

\* MapResult._set(c, (True, result)): the chunk's results, one per task, stored
\* from SlotStart on.  result[i] is the result of task i of the call.
StoreChunk(old, c, completed, result) ==
    LET n == Len(old)
        first == c * ChunkSize(n)
        size == Min(ChunkSize(n), n - first)
        start == SlotStart(c, completed, n)
    IN  [p \in 1..n |->
            IF start < p /\ p <= start + size
            THEN result[p - start + first]
            ELSE old[p]]

\* A variant of WriteFrames that leaves the loop at the first None.
RECURSIVE WriteFrames_break(_)
WriteFrames_break(results) ==
    IF results = <<>> THEN <<>>
    ELSE IF Head(results).res = "ok"
         THEN <<Head(results).src>> \o WriteFrames_break(Tail(results))
         ELSE <<>>

\* for processed_frame in processed_frames: if processed_frame is not None:
\*     out.write(processed_frame)
RECURSIVE WriteFrames(_)
WriteFrames(results) ==
    IF results = <<>> THEN <<>>
    ELSE IF Head(results).res = "ok"
         THEN <<Head(results).src>> \o WriteFrames(Tail(results))
         ELSE WriteFrames(Tail(results))

\* -------------------------------------------------------------------- Init
InitWith(totals, shapes, scales) ==
    /\ \E e \in BOOLEAN, o \in BOOLEAN, t \in totals :
          \* what is never read is fixed: a missing file has nothing to open,
          \* and a source that does not open reports no frame count
          /\ (~e => ~o)
          /\ (~o => t = 0)
          /\ input_exists = e
          /\ cap_opens = o
          /\ total_frames = t
    /\ \E shape \in shapes, scale \in scales :
          /\ frame_shape = shape
          /\ scale_x = scale[1]
          /\ scale_y = scale[2]
    /\ pc = "CheckInput"
    /\ error = "none"
    /\ cap_state = "none"
    /\ cap_pos = 0
    /\ first_ret = "unset"
    /\ carved_frame = "unset"
    /\ carved_shape = <<0, 0>>
    /\ out_state = "none"
    /\ out_size = <<0, 0>>
    /\ out_opens = 0
    /\ written = <<>>
    /\ pool_state = "none"
    /\ frame_buffer = <<>>
    /\ tasks = <<>>
    /\ slots = <<>>
    /\ next_chunk = 0
    /\ inflight = {}
    /\ job_failed = FALSE
    /\ processed_frames = <<>>
    /\ total_processed_frames = 0
    \* the progress file as an earlier run left it: one stale line
    /\ progress_file = <<-1>>
    /\ reported = <<>>
    /\ batch_sizes = <<>>
    /\ dispatched = <<>>
    /\ none_frames = {}
    /\ failures = 0
    /\ total_time = -1
    /\ average_fps = <<0, 1>>
    /\ average_spf = <<0, 1>>
    /\ read_error = FALSE
    /\ transform_calls = 0

\* A 640x480 source scaled by (0.5, 1.0).
Init == InitWith(TotalFrameChoices, DefaultShapes, DefaultScales)

\* ------------------------------------------------------------------- setup
Fail(why) ==
    /\ pc' = "Failed"
    /\ error' = why

\* if not os.path.exists(input_path): print(...); return
CheckInput ==
    /\ pc = "CheckInput"
    /\ IF input_exists
       THEN pc' = "OpenSource" /\ UNCHANGED error
       ELSE Fail("InputMissing")
    /\ UNCHANGED <<envVars, statVars, read_error, transform_calls, cap_state,
                   cap_pos, first_ret, carved_frame, carved_shape, sinkVars,
                   written, pool_state, frame_buffer, jobVars, processed_frames,
                   total_processed_frames, progress_file, reported, histVars>>

\* cap = cv2.VideoCapture(input_path); if not cap.isOpened(): print; return
\* fps, total_frames = ...
OpenSource ==
    /\ pc = "OpenSource"
    /\ IF cap_opens
       THEN pc' = "ReadFirst" /\ cap_state' = "open" /\ UNCHANGED error
       ELSE Fail("OpenFailed") /\ UNCHANGED cap_state
    /\ UNCHANGED <<envVars, statVars, read_error, transform_calls, cap_pos,
                   first_ret, carved_frame, carved_shape, sinkVars, written,
                   pool_state, frame_buffer, jobVars, processed_frames,
                   total_processed_frames, progress_file, reported, histVars>>

\* ret, frame = cap.read(), the source having a first frame
ReadFirstFrame ==
    /\ pc = "ReadFirst"
    /\ first_ret' = "true"
    /\ cap_pos' = cap_pos + 1
    /\ pc' = "Probe"
    /\ UNCHANGED <<envVars, statVars, read_error, transform_calls, error,
                   cap_state, carved_frame, carved_shape, sinkVars, written,
                   pool_state, frame_buffer, jobVars, processed_frames,
                   total_processed_frames, progress_file, reported, histVars>>

\* ret, frame = cap.read(); if not ret: print(...); return
ReadFirstFrameFails ==
    /\ pc = "ReadFirst"
    /\ first_ret' = "false"
    /\ Fail("FirstReadFailed")
    /\ UNCHANGED <<envVars, statVars, read_error, transform_calls, cap_state,
                   cap_pos, carved_frame, carved_shape, sinkVars, written,
                   pool_state, frame_buffer, jobVars, processed_frames,
                   total_processed_frames, progress_file, reported, histVars>>

\* A variant of AfterProbe without the None check.
AfterProbe_unchecked(r) ==
    IF r = "raise" THEN pc' = "Failed" /\ error' = "ProbeRaised"
    ELSE pc' = "Setup" /\ UNCHANGED error

\* What the driver does with the probe's result r:
\* if carved_frame is None: print(...); return
AfterProbe(r) ==
    IF r = "ok" THEN pc' = "Setup" /\ UNCHANGED error
    ELSE IF r = "none" THEN Fail("FirstTransformFailed")
    ELSE Fail("ProbeRaised")

\* new_width = int(image.shape[1] * scale_x), and new_height likewise: int()
\* drops the fraction of the product.  The scale is in tenths.
ScaledSize(size, scale) == (size * scale) \div 10

\* The shape of seam_carve's result: the image resize is asked for,
\* resize(image, (new_height, new_width)).
seam_carve_shape(shape, sx, sy) ==
    <<ScaledSize(shape[1], sy), ScaledSize(shape[2], sx)>>

\* carved_frame = seam_carve(frame_rgb, scale_x, scale_y), in the driver
ProbeFirstFrame ==
    /\ pc = "Probe"
    /\ \E r \in {"ok", "none", "raise"} :
          /\ carved_frame' = r
          /\ transform_calls' = transform_calls + 1
          /\ carved_shape' =
                 IF r = "ok"
                 THEN seam_carve_shape(frame_shape, scale_x, scale_y)
                 ELSE carved_shape
          /\ AfterProbe(r)
    /\ UNCHANGED <<envVars, statVars, read_error, cap_state, cap_pos, first_ret,
                   sinkVars, written, pool_state, frame_buffer, jobVars,
                   processed_frames, total_processed_frames, progress_file,
                   reported, histVars>>

\* A driver that leaves the source where the first read left it.
Rewind_none(pos) == pos

\* cap.set(cv2.CAP_PROP_POS_FRAMES, 0)
Rewind(pos) == 0

\* new_height, new_width, _ = carved_frame.shape;
\* out = cv2.VideoWriter(output_path, fourcc, fps, (new_width, new_height))
OpenSink ==
    /\ out_state' = "open"
    /\ out_size' = <<carved_shape[2], carved_shape[1]>>
    /\ out_opens' = out_opens + 1

\* out = cv2.VideoWriter(...); cap.set(CAP_PROP_POS_FRAMES, 0); frame_buffer =
\* []; total_processed_frames = 0; pool = Pool(cpu_count());
\* open(progress_file, 'w'), which empties the file
Setup ==
    /\ pc = "Setup"
    /\ OpenSink
    /\ cap_pos' = Rewind(cap_pos)
    /\ frame_buffer' = <<>>
    /\ total_processed_frames' = 0
    /\ pool_state' = "running"
    /\ progress_file' = <<>>
    /\ pc' = "Read"
    /\ UNCHANGED <<envVars, statVars, read_error, transform_calls, error,
                   cap_state, first_ret, carved_frame, carved_shape, written,
                   jobVars, processed_frames, reported, histVars>>

\* The same up to the pool's start, then open(progress_file, 'w') raises
\* OSError (a directory that is missing or not writable): nothing catches it.
OpenProgressFails ==
    /\ pc = "Setup"
    /\ OpenSink
    /\ cap_pos' = Rewind(cap_pos)
    /\ frame_buffer' = <<>>
    /\ total_processed_frames' = 0
    /\ pool_state' = "running"
    /\ Fail("ProgressOpenFailed")
    /\ UNCHANGED <<envVars, statVars, read_error, transform_calls, cap_state,
                   first_ret, carved_frame, carved_shape, written, jobVars,
                   processed_frames, progress_file, reported, histVars>>

\* --------------------------------------------------------------- streaming
\* pool.starmap(process_frame, [(f, scale_x, scale_y) for f in frame_buffer]):
\* the batch is cut into chunks, put on the task queue in order, and the idle
\* workers take the first chunks.
Dispatch(batch) ==
    LET n == Len(batch)
        taken == Min(NumWorkers, NumChunks(n))
    IN  /\ tasks' = batch
        /\ slots' = [i \in 1..n |-> Pending]
        /\ next_chunk' = taken
        /\ inflight' = 0..(taken - 1)
        /\ job_failed' = FALSE
        /\ batch_sizes' = Append(batch_sizes, n)
        /\ dispatched' = dispatched \o batch

\* current_frame = int(cap.get(CAP_PROP_POS_FRAMES));
\* progress_percentage = (current_frame / total_frames) * 100;
\* progress_file.write(f"{progress_percentage:.2f}\n"); back to the loop's top.
\* The write is a file operation that can raise OSError (write_ok false);
\* nothing in process_video catches it.
Report(buffer_after, current_frame) ==
    IF ~ReportDue(buffer_after)
    THEN pc' = "Read" /\ UNCHANGED <<error, progress_file, reported>>
    ELSE IF total_frames = 0
    THEN Fail("ZeroDivisionError") /\ UNCHANGED <<progress_file, reported>>
    ELSE \E write_ok \in BOOLEAN :
         IF write_ok
         THEN LET p == progress_percentage(current_frame, total_frames)
              IN  /\ progress_file' = ProgressWrite(progress_file, p)
                  /\ reported' = Append(reported, p)
                  /\ pc' = "Read"
                  /\ UNCHANGED error
         ELSE Fail("ProgressWriteFailed")
              /\ UNCHANGED <<progress_file, reported>>

\* ret, frame = cap.read() with ret true; frame_buffer.append(frame); the
\* buffer is not full: report and loop
ReadFrame ==
    /\ pc = "Read"
    /\ cap_pos < MaxFrames
    /\ ~BatchFull(Append(frame_buffer, cap_pos))
    /\ frame_buffer' = Append(frame_buffer, cap_pos)
    /\ cap_pos' = cap_pos + 1
    /\ Report(frame_buffer', cap_pos')
    /\ UNCHANGED <<envVars, statVars, read_error, transform_calls, cap_state,
                   first_ret, carved_frame, carved_shape, sinkVars, written,
                   pool_state, jobVars, processed_frames,
                   total_processed_frames, histVars>>

\* ret, frame = cap.read() with ret true; frame_buffer.append(frame); the
\* buffer is full: the batch goes to the pool
ReadFrameFillsBatch ==
    /\ pc = "Read"
    /\ cap_pos < MaxFrames
    /\ BatchFull(Append(frame_buffer, cap_pos))
    /\ frame_buffer' = Append(frame_buffer, cap_pos)
    /\ cap_pos' = cap_pos + 1
    /\ Dispatch(frame_buffer')
    /\ pc' = "PoolFull"
    /\ UNCHANGED <<envVars, statVars, read_error, transform_calls, error,
                   cap_state, first_ret, carved_frame, carved_shape, sinkVars,
                   written, pool_state, processed_frames,
                   total_processed_frames, progress_file, reported, none_frames,
                   failures>>

\* What ret false stands for: cap.read() returns ret false at the end of the
\* stream and also when decoding the next frame fails (err); it returns no
\* other sign of an error.  A read at MaxFrames is at the end of the stream.
ReadReturnsFalse(err) ==
    /\ pc = "Read"
    /\ cap_pos \in StreamLengths
    /\ err => cap_pos < MaxFrames
    /\ read_error' = err

\* What the driver does when ret is false, the buffer holding frames:
\* the last batch goes to the pool (if not ret: if frame_buffer: starmap).
\* err is not among the things the driver can see.
EndOfStreamFlush ==
    /\ \E err \in BOOLEAN : ReadReturnsFalse(err)
    /\ frame_buffer # <<>>
    /\ Dispatch(frame_buffer)
    /\ pc' = "PoolFinal"
    /\ UNCHANGED <<envVars, statVars, transform_calls, error, cap_state,
                   cap_pos, first_ret, carved_frame, carved_shape, sinkVars,
                   written, pool_state, frame_buffer, processed_frames,
                   total_processed_frames, progress_file, reported, none_frames,
                   failures>>

\* ret false, the buffer empty: break
EndOfStream ==
    /\ \E err \in BOOLEAN : ReadReturnsFalse(err)
    /\ frame_buffer = <<>>
    /\ pc' = "Close"
    /\ UNCHANGED <<envVars, statVars, transform_calls, error, cap_state,
                   cap_pos, first_ret, carved_frame, carved_shape, sinkVars,
                   written, pool_state, frame_buffer, jobVars, processed_frames,
                   total_processed_frames, progress_file, reported, histVars>>

\* ----------------------------------------------------------------- workers
InPool == pc \in {"PoolFull", "PoolFinal"}

\* The worker that finished a chunk takes the next one off the task queue.
TakeNext(c) ==
    LET more == next_chunk < NumChunks(Len(tasks))
    IN  /\ inflight' = (inflight \ {c}) \cup (IF more THEN {next_chunk} ELSE {})
        /\ next_chunk' = IF more THEN next_chunk + 1 ELSE next_chunk

\* Frame f may fail in a worker: the transformation is a pure function and
\* frame 0 passed the probe, so frame 0 does not.  At most one transformation
\* of a run fails.
MayFail(f) == f # 0 /\ failures = 0

\* mapstar runs process_frame, and with it seam_carve, on the tasks of chunk c
\* in order, up to its task number last.
CallsInChunk(c, last) ==
    transform_calls' = transform_calls + (last - (c * ChunkSize(Len(tasks))))

\* The number of the last task of chunk c.
ChunkEnd(c) == Min((c + 1) * ChunkSize(Len(tasks)), Len(tasks))

\* MapResult._set(c, (True, result)): if success and self._success: store
SetSuccess(c, result) ==
    slots' = IF job_failed THEN slots
             ELSE StoreChunk(slots, c,
                             next_chunk - Cardinality(inflight), result)

\* A worker runs process_frame on every frame of chunk c; all return a frame.
WorkerFinishesChunk ==
    /\ InPool
    /\ \E c \in inflight :
          /\ SetSuccess(c, [i \in 1..Len(tasks) |-> Carved(tasks[i])])
          /\ CallsInChunk(c, ChunkEnd(c))
          /\ TakeNext(c)
    /\ UNCHANGED <<envVars, statVars, read_error, pc, error, cap_state, cap_pos,
                   first_ret, carved_frame, carved_shape, sinkVars, written,
                   pool_state, frame_buffer, tasks, job_failed,
                   processed_frames, total_processed_frames, progress_file,
                   reported, histVars>>

\* As above, but seam_carve returns None for task k of the chunk, and
\* process_frame returns None for it.
WorkerReturnsNone ==
    /\ InPool
    /\ \E c \in inflight : \E k \in ChunkIdx(c, Len(tasks)) :
          /\ MayFail(tasks[k])
          /\ SetSuccess(c, [i \in 1..Len(tasks) |->
                               IF i = k THEN NoneResult(tasks[i])
                               ELSE Carved(tasks[i])])
          /\ CallsInChunk(c, ChunkEnd(c))
          /\ TakeNext(c)
          /\ none_frames' = none_frames \cup {tasks[k]}
          /\ failures' = failures + 1
    /\ UNCHANGED <<envVars, statVars, read_error, pc, error, cap_state, cap_pos,
                   first_ret, carved_frame, carved_shape, sinkVars, written,
                   pool_state, frame_buffer, tasks, job_failed,
                   processed_frames, total_processed_frames, progress_file,
                   reported, batch_sizes, dispatched>>

\* process_frame raises on a task of chunk c: the worker reports the chunk as
\* (False, exception); MapResult._set keeps the first exception and stores no
\* result for the chunk.
WorkerRaises ==
    /\ InPool
    /\ \E c \in inflight : \E k \in ChunkIdx(c, Len(tasks)) :
          /\ MayFail(tasks[k])
          /\ job_failed' = TRUE
          /\ CallsInChunk(c, k)
          /\ TakeNext(c)
          /\ failures' = failures + 1
    /\ UNCHANGED <<envVars, statVars, read_error, pc, error, cap_state, cap_pos,
                   first_ret, carved_frame, carved_shape, sinkVars, written,
                   pool_state, frame_buffer, tasks, slots, processed_frames,
                   total_processed_frames, progress_file, reported, batch_sizes,
                   dispatched, none_frames>>

\* ----------------------------------------------------------------- collect
\* A call that returns as soon as the last chunk has been handed to a worker.
JobReady_early == InPool /\ next_chunk = NumChunks(Len(tasks))

\* A call that waits for one chunk more than the batch was cut into.
JobReady_extra ==
    InPool /\ inflight = {} /\ next_chunk = NumChunks(Len(tasks)) + 1

\* MapResult: the call is ready once every chunk has reported.
JobReady == InPool /\ inflight = {} /\ next_chunk = NumChunks(Len(tasks))

\* A counter that counts every result of the batch, written or not.
CountWritten_all(results) == Len(results)

\* total_processed_frames += 1, inside `if processed_frame is not None`
CountWritten(results) == Len(WriteFrames(results))

\* starmap returns the slots; the driver writes every frame that is not None
WriteBatch ==
    /\ processed_frames' = slots
    /\ written' = written \o WriteFrames(slots)
    /\ total_processed_frames' =
           total_processed_frames + CountWritten(slots)

\* A driver that forgets to empty the buffer after a batch.
ClearBuffer_keep(buffer) == buffer

\* frame_buffer = [] after a full batch
ClearBuffer(buffer) == <<>>

\* the full batch's results are back: write them, frame_buffer = [], report
CollectBatch ==
    /\ pc = "PoolFull"
    /\ JobReady
    /\ ~job_failed
    /\ WriteBatch
    /\ frame_buffer' = ClearBuffer(frame_buffer)
    /\ Report(frame_buffer', cap_pos)
    /\ UNCHANGED <<envVars, statVars, read_error, transform_calls, cap_state,
                   cap_pos, first_ret, carved_frame, carved_shape, sinkVars,
                   pool_state, jobVars, histVars>>

\* the last batch's results are back: write them, break
CollectFinalBatch ==
    /\ pc = "PoolFinal"
    /\ JobReady
    /\ ~job_failed
    /\ WriteBatch
    /\ pc' = "Close"
    /\ UNCHANGED <<envVars, statVars, read_error, transform_calls, error,
                   cap_state, cap_pos, first_ret, carved_frame, carved_shape,
                   sinkVars, pool_state, frame_buffer, jobVars, progress_file,
                   reported, histVars>>

\* starmap re-raises the exception of the chunk that failed; nothing in
\* process_video catches it
StarmapRaises ==
    /\ JobReady
    /\ job_failed
    /\ Fail("WorkerRaised")
    /\ UNCHANGED <<envVars, statVars, read_error, transform_calls, cap_state,
                   cap_pos, first_ret, carved_frame, carved_shape, sinkVars,
                   written, pool_state, frame_buffer, jobVars, processed_frames,
                   total_processed_frames, progress_file, reported, histVars>>

\* average_fps = total_processed_frames / total_time if total_time > 0 else 0
AverageFps(n, t) == IF t > 0 THEN <<n, t>> ELSE <<0, 1>>

\* average_spf = total_time / total_processed_frames
\*               if total_processed_frames > 0 else 0
AverageSpf(n, t) == IF n > 0 THEN <<t, n>> ELSE <<0, 1>>

\* pool.close(); pool.join(); cap.release(); out.release(); the statistics
Close ==
    /\ pc = "Close"
    /\ pool_state' = "joined"
    /\ cap_state' = "released"
    /\ out_state' = "released"
    /\ \E t \in TimeChoices :
          /\ total_time' = t
          /\ average_fps' = AverageFps(total_processed_frames, t)
          /\ average_spf' = AverageSpf(total_processed_frames, t)
    /\ pc' = "Done"
    /\ UNCHANGED <<out_size, out_opens>>
    /\ UNCHANGED <<envVars, read_error, transform_calls, error, cap_pos,
                   first_ret, carved_frame, carved_shape, written, frame_buffer,
                   jobVars, processed_frames, total_processed_frames,
                   progress_file, reported, histVars>>

Next ==
    \/ CheckInput
    \/ OpenSource
    \/ ReadFirstFrame
    \/ ReadFirstFrameFails
    \/ ProbeFirstFrame
    \/ Setup
    \/ OpenProgressFails
    \/ ReadFrame
    \/ ReadFrameFillsBatch
    \/ EndOfStreamFlush
    \/ EndOfStream
    \/ WorkerFinishesChunk
    \/ WorkerReturnsNone
    \/ WorkerRaises
    \/ CollectBatch
    \/ CollectFinalBatch
    \/ StarmapRaises
    \/ Close

Spec == Init /\ [][Next]_vars

\* The program under fair scheduling: the driver is a sequential program that
\* runs on while it has a statement to execute, every call it makes returns,
\* and a worker that holds a chunk works it off (every transformation
\* returns or raises).  Each step of Next is one of these, and at every state
\* that is not final one is possible.
FairInit == InitWith(FairTotals, DefaultShapes, DefaultScales)
FairSpec == FairInit /\ [][Next]_vars /\ WF_vars(Next)

\* The same program on sources of every shape and scale pair listed, their
\* streams at most DimMaxFrames long.
DimInit == InitWith(TotalFrameChoices, FrameShapes, ScalePairs)
DimNext ==
    \/ CheckInput
    \/ OpenSource
    \/ ReadFirstFrame
    \/ ReadFirstFrameFails
    \/ ProbeFirstFrame
    \/ Setup
    \/ OpenProgressFails
    \/ (ReadFrame /\ cap_pos' <= DimMaxFrames)
    \/ (ReadFrameFillsBatch /\ cap_pos' <= DimMaxFrames)
    \/ EndOfStreamFlush
    \/ EndOfStream
    \/ WorkerFinishesChunk
    \/ WorkerReturnsNone
    \/ WorkerRaises
    \/ CollectBatch
    \/ CollectFinalBatch
    \/ StarmapRaises
    \/ Close
DimSpec == DimInit /\ [][DimNext]_vars

\* ================================================================== claims
\* The frames 0..n-1 without those of skip, in source order.
KeptFrames(n, skip) ==
    SelectSeq([i \in 1..n |-> i - 1], LAMBDA f : f \notin skip)

\* The driver is between two batches: every batch dispatched has been written.
Steady == pc \in {"Read", "Close", "Done"}

\* Frames whose batch has been collected and written.
Resolved == IF pc = "Read" THEN cap_pos - Len(frame_buffer) ELSE cap_pos

\* C1: order preservation.  Whatever the order in which the chunks of a batch
\* complete, every result slot that is filled holds the result of the frame at
\* the same position of the batch; what starmap returns has the batch's length
\* and a result at every position, the i-th being that of the i-th frame; and
\* the frames in the sink are in source order.
C1_OrderPreserved ==
    /\ InPool =>
          /\ Len(slots) = Len(tasks)
          /\ \A i \in 1..Len(slots) :
                slots[i].res # "pending" => slots[i].src = tasks[i]
    /\ (Steady /\ batch_sizes # <<>>) =>
          /\ Len(processed_frames) = Len(tasks)
          /\ \A i \in 1..Len(processed_frames) :
                /\ processed_frames[i].res # "pending"
                /\ processed_frames[i].src = tasks[i]
    /\ \A i \in 1..(Len(written) - 1) : written[i] < written[i + 1]

\* C1 witness: a full batch whose first chunk is the last still running; all
\* later chunks completed before it and their results are in their slots.
C1_Witness ==
    /\ pc = "PoolFull"
    /\ inflight = {0}
    /\ next_chunk = NumChunks(Len(tasks))
    /\ NumChunks(Len(tasks)) >= 2
    /\ \A i \in 1..Len(tasks) :
          i \notin ChunkIdx(0, Len(tasks)) => slots[i] = Carved(tasks[i])

\* C2: partial-failure isolation.  Between batches the sink holds exactly the
\* frames of the batches processed so far whose transform did not return None,
\* in source order; and a None result never ends the run in Failed: a run
\* that had one fails only by a raised exception or a failed progress write.
C2_FailureIsolated ==
    /\ Steady => written = KeptFrames(Resolved, none_frames)
    /\ (none_frames # {}
           /\ error \notin {"WorkerRaised", "ProgressWriteFailed"})
          => pc # "Failed"

\* C2 witness: a run that reached Done although a frame of its first batch,
\* not the last one of the batch, came back None, and that processed a later
\* batch as well.
C2_Witness ==
    /\ pc = "Done"
    /\ Len(batch_sizes) >= 2
    /\ \E f \in none_frames : f + 1 < batch_size
    /\ Len(written) = cap_pos - 1

\* C3 (as claimed): an exception raised in a worker never fails the batch call
\* and never ends the run; the run goes on to Done with the other frames.
C3_RaiseCaptured ==
    /\ error # "WorkerRaised"
    /\ job_failed => pc # "Failed"

\* The batch sizes the claim gives for a source of t frames.
ExpectedSizes(t) ==
    [i \in 1..((t \div batch_size) + (IF t % batch_size # 0 THEN 1 ELSE 0)) |->
        IF i <= t \div batch_size THEN batch_size ELSE t % batch_size]

\* C4: batching.  No empty batch is dispatched; while the driver reads, every
\* batch dispatched so far was full; once the stream of T frames is exhausted
\* the sizes are batch_size, floor(T / batch_size) times, then T mod
\* batch_size when that is not 0; and the last batch, short or not, was
\* returned at its own length and written with the same skip of None results.
C4_Batching ==
    /\ \A i \in 1..Len(batch_sizes) : batch_sizes[i] >= 1
    /\ pc = "Read" =>
          /\ Len(frame_buffer) < batch_size
          /\ batch_sizes = ExpectedSizes(cap_pos - Len(frame_buffer))
    /\ pc \in {"Close", "Done"} =>
          /\ batch_sizes = ExpectedSizes(cap_pos)
          /\ batch_sizes # <<>> =>
                /\ Len(processed_frames) = batch_sizes[Len(batch_sizes)]
                /\ written =
                      KeptFrames(cap_pos - Len(processed_frames), none_frames)
                      \o WriteFrames(processed_frames)

\* C4 witness: 100 frames, batches of 32, 32, 32 and 4.
C4_Witness ==
    /\ pc = "Done"
    /\ cap_pos = 100
    /\ batch_sizes = <<32, 32, 32, 4>>

\* C5: progress monotonicity, for a source whose reported frame count is the
\* number of frames it delivers.  The reported percentages never decrease;
\* while no more frames have been consumed than the source reported, each lies
\* in 0.00..100.00; and when the run is Done with all of them consumed, the
\* last report is 100.00.  (Percentages are in hundredths.)
C5_ProgressMonotone ==
    /\ \A i \in 1..(Len(reported) - 1) : reported[i] <= reported[i + 1]
    /\ cap_pos <= total_frames =>
          \A i \in 1..Len(reported) : 0 <= reported[i] /\ reported[i] <= 10000
    /\ (pc = "Done" /\ cap_pos = total_frames) =>
          /\ reported # <<>>
          /\ reported[Len(reported)] = 10000

\* C5 witness: a finished run over a source that delivered as many frames as
\* it reported, more than one batch; the first report is 1/total_frames of
\* 100, rounded to two decimals.
C5_Witness ==
    /\ pc = "Done"
    /\ cap_pos = total_frames
    /\ Len(reported) = total_frames
    /\ Len(reported) > batch_size
    /\ reported[1] = Round2(1, total_frames)
    /\ reported[1] * total_frames # 10000

C8_ZeroTotalSafe ==
    total_frames = 0 =>
        /\ error # "ZeroDivisionError"
        /\ \A i \in 1..Len(reported) : reported[i] = 0
        /\ first_ret = "false" => pc = "Failed"

\* C9 (as claimed): in a terminal state no handle opened by the run is open.
C9_HandlesReleased ==
    pc \in {"Done", "Failed"} =>
        /\ cap_state # "open"
        /\ out_state # "open"
        /\ pool_state # "running"

\* The run met one of the setup failures.
SetupFailure ==
    \/ ~input_exists
    \/ ~cap_opens
    \/ first_ret = "false"
    \/ carved_frame \in {"none", "raise"}

\* C10: setup failure aborts the run.  With the input missing the run never
\* gets past the existence check, with a source that does not open never past
\* the open; once the first read or the first transformation has failed the
\* run is in Failed; and in all of these the sink is never opened, the pool
\* never started, no frame written and the streaming loop never entered.
C10_SetupFailureAborts ==
    /\ ~input_exists => pc \in {"CheckInput", "Failed"}
    /\ ~cap_opens => pc \in {"CheckInput", "OpenSource", "Failed"}
    /\ first_ret = "false" => pc = "Failed"
    /\ carved_frame \in {"none", "raise"} => pc = "Failed"
    /\ SetupFailure =>
          /\ out_state = "none"
          /\ pool_state = "none"
          /\ written = <<>>
          /\ reported = <<>>
          /\ batch_sizes = <<>>

\* C10 witness: the probe's transformation returned None and the run failed.
C10_Witness ==
    /\ pc = "Failed"
    /\ error = "FirstTransformFailed"
    /\ cap_state = "open"

\* C11 (as claimed): a read that fails with frames left is fatal: the run does
\* not go on to flush, close and end in Done as at a normal end of stream.
C11_ReadErrorFatal ==
    read_error => pc \notin {"PoolFinal", "Close", "Done"}

\* C12 (as claimed): a failure to open or to write the progress file is
\* ignored: it never ends the run in Failed.
C12_ProgressFailureIgnored ==
    pc = "Failed" => error \notin {"ProgressOpenFailed", "ProgressWriteFailed"}

\* Some task of the batch in the pool has no result yet.
TaskOutstanding ==
    inflight # {} \/ (InPool /\ next_chunk < NumChunks(Len(tasks)))

\* C13: synchronous batch barrier.  While a task of the current batch has no
\* result the driver makes no step: it reads no frame, writes nothing to the
\* sink, reports no progress and dispatches no other batch; so the tasks that
\* run are those of one batch, the one the driver waits for.
C13_BatchBarrier ==
    [][TaskOutstanding =>
          /\ TaskOutstanding' => InPool'
          /\ <<pc, cap_pos, frame_buffer, written, total_processed_frames,
               progress_file, reported, tasks, batch_sizes>>' =
             <<pc, cap_pos, frame_buffer, written, total_processed_frames,
               progress_file, reported, tasks, batch_sizes>>]_vars

\* C13 witness: the second batch is in the pool, a chunk of it done and every
\* worker busy on another, the sink still holding the first batch only.
C13_Witness ==
    /\ pc = "PoolFull"
    /\ Len(batch_sizes) = 2
    /\ Cardinality(inflight) = NumWorkers
    /\ \E i \in 1..Len(slots) : slots[i] # Pending
    /\ Len(written) = batch_size

\* n / 10 rounded to the nearest integer, a tie going to the even one.
RoundTenths(n) ==
    LET q == n \div 10
        r == n % 10
    IN  IF r > 5 \/ (r = 5 /\ q % 2 = 1) THEN q + 1 ELSE q

\* C14 (as claimed): the sink is opened exactly once, with the size of the
\* transformed first frame, which is round(input_width * scale_x) by
\* round(input_height * scale_y).
C14_RoundedDimensions ==
    out_state # "none" =>
        /\ out_opens = 1
        /\ out_size = <<carved_shape[2], carved_shape[1]>>
        /\ out_size = <<RoundTenths(frame_shape[2] * scale_x),
                        RoundTenths(frame_shape[1] * scale_y)>>

\* C15: rewind.  Streaming starts with the cursor at 0 and nothing written:
\* the probe's result is not written.  Frame 0 is the first task of the first
\* batch and the first frame written is the pool's result for it.  A run that
\* ends in Done having read T frames in Streaming called the transformation
\* T + 1 times.
C15_Rewind ==
    /\ (pc = "Read" /\ reported = <<>>) => cap_pos = 0
    /\ batch_sizes = <<>> => written = <<>>
    /\ Len(batch_sizes) = 1 => tasks[1] = 0
    /\ written # <<>> => written[1] = 0
    /\ pc = "Done" => transform_calls = cap_pos + 1

\* C15 witness: a finished run over a full batch and one more frame, frame 0
\* written first, one call more than frames.
C15_Witness ==
    /\ pc = "Done"
    /\ cap_pos = batch_size + 1
    /\ transform_calls = batch_size + 2
    /\ written[1] = 0
    /\ none_frames = {}

\* C16: statistics count.  The written-frame counter is the number of frames
\* written to the sink; at Done that is the number of frames read in Streaming
\* minus those whose transformation returned None, and the run's two averages
\* are the quotients of that count and the elapsed time, each 0 where its
\* divisor is 0: a count of 0 gives 0 seconds per frame whatever the time.
C16_StatisticsCount ==
    /\ out_state # "none" => total_processed_frames = Len(written)
    /\ pc = "Done" =>
          /\ total_processed_frames = cap_pos - Cardinality(none_frames)
          /\ error = "none"
          /\ average_spf = IF total_processed_frames = 0 THEN <<0, 1>>
                           ELSE <<total_time, total_processed_frames>>
          /\ average_fps = IF total_time = 0 THEN <<0, 1>>
                           ELSE <<total_processed_frames, total_time>>
    /\ \A t \in TimeChoices : AverageSpf(0, t) = <<0, 1>>

\* C16 witness: a finished run of 33 reads, one transformation of which
\* returned None: the counter is 32, and the clock saw no time pass.
C16_Witness ==
    /\ pc = "Done"
    /\ cap_pos = batch_size + 1
    /\ Cardinality(none_frames) = 1
    /\ total_processed_frames = batch_size
    /\ total_time = 0
    /\ average_spf = <<0, batch_size>>

\* C17: termination.  Under fair scheduling every run ends, in Done or in
\* Failed.  In Done the pool has been closed and joined, and by then no chunk
\* is with a worker or in the task queue and every frame read in Streaming has
\* been processed and written or skipped: the pool is joined only after the
\* last batch was written.
C17_Terminates ==
    /\ <>(pc \in {"Done", "Failed"})
    /\ [](pc = "Done" => pool_state = "joined")
    /\ [](pool_state = "joined" =>
             /\ ~TaskOutstanding
             /\ processed_frames = slots
             /\ Len(written) + Cardinality(none_frames) = cap_pos)

\* C17 witness: a run that ended in Done with the pool joined, its last batch
\* a short one, processed and written.
C17_Witness ==
    /\ pc = "Done"
    /\ pool_state = "joined"
    /\ batch_sizes = <<batch_size, 1>>
    /\ Len(processed_frames) = 1
    /\ Len(written) = batch_size + 1

\* The driver is in its loop or past it.
Streaming == pc \in {"Read", "PoolFull", "PoolFinal", "Close", "Done"}

\* C18: exactly-once dispatch.  The frames handed to the pool so far, followed
\* by those waiting in the buffer, are the frames read so far, each once and
\* in source order; past the loop all of them have been handed to the pool.
\* Whenever the driver is about to read, the buffer holds fewer than
\* batch_size frames, none of them left from a batch already dispatched.
\* Between batches every frame dispatched has been written or skipped.
C18_ExactlyOnce ==
    /\ Streaming =>
          dispatched \o (IF pc = "Read" THEN frame_buffer ELSE <<>>)
              = [i \in 1..cap_pos |-> i - 1]
    /\ pc = "Read" =>
          /\ Len(frame_buffer) <= batch_size - 1
          /\ Len(frame_buffer) = cap_pos % batch_size
    /\ (Streaming /\ ~InPool) =>
          Len(dispatched) = Len(written) + Cardinality(none_frames)

\* C18 witness: two batches dispatched, and the driver about to read with the
\* buffer one frame short of a batch.
C18_Witness ==
    /\ pc = "Read"
    /\ Len(batch_sizes) = 2
    /\ Len(dispatched) = 2 * batch_size
    /\ Len(frame_buffer) = batch_size - 1
    /\ frame_buffer[1] = 2 * batch_size

\* Frames consumed minus frames resolved, that is written or skipped.
Lag == cap_pos - (Len(written) + Cardinality(none_frames))

\* The driver has just made a report: every report is followed by the loop's
\* next read, and only the first read of the loop is not preceded by one.
JustReported == pc = "Read" /\ reported # <<>>

====
